---- MODULE Spec2Model ----
(***************************************************************************)
(* Model of address_book.py: the validated fields (Phone, Birthday), the   *)
(* Record and AddressBook classes, the seven commands wrapped by           *)
(* input_error, and the pickle file written by save_address_book.          *)
(*                                                                         *)
(* A text (a Python str) is a sequence of characters; a character is a     *)
(* one-character string, and a non-ASCII character is written by its code  *)
(* point ("U+0663").                                                       *)
(***************************************************************************)
EXTENDS Integers, Sequences, FiniteSets, TLC

VARIABLES
    book,       \* the AddressBook of main (line 231): records in dict order
    disk,       \* the content of address_book.pkl
    outcome,    \* what the last execute gave back to the dispatch loop
    lastCmd,    \* the command the dispatch loop called last
    lastArgs,   \* its argument list
    lastToday,  \* what date.today() returned to it
    pre,        \* the AddressBook as it was when that command was called
    preDisk,    \* the file as it was when that command was called
    saved,      \* whether that command called save_address_book
    probe,      \* the input of the last direct call of a function
    verdict,    \* what that call returned
    pc,         \* the process: in the loop of main, exited, or crashed
    lastPhone   \* per name, the phone argument of the last add or change
                \* that returned its success message

vars == <<book, disk, outcome, lastCmd, lastArgs, lastToday, pre, preDisk,
          saved, probe, verdict, pc, lastPhone>>

----------------------------------------------------------------------------
(* Characters and the str predicates the source uses.                      *)

AsciiDigits == {"0", "1", "2", "3", "4", "5", "6", "7", "8", "9"}

\* ARABIC-INDIC DIGIT THREE: category Nd, matched by \d, isdigit() is True.
OtherDecimals == {"U+0663"}

\* SUPERSCRIPT TWO: category No, isdigit() is True, isdecimal() is False.
OtherDigits == {"U+00B2"}

\* str.isdigit() of one character
CharIsDigit(c) == c \in AsciiDigits \cup OtherDecimals \cup OtherDigits

\* str.isdigit(): every character a digit and at least one character
isdigit(value) == Len(value) > 0 /\ \A i \in 1..Len(value) : CharIsDigit(value[i])

\* what \d of the re module matches in a str pattern
CharIsDecimal(c) == c \in AsciiDigits \cup OtherDecimals

\* int() of one decimal character
DigitVal(c) ==
    CASE c = "0" -> 0 [] c = "1" -> 1 [] c = "2" -> 2 [] c = "3" -> 3
      [] c = "4" -> 4 [] c = "5" -> 5 [] c = "6" -> 6 [] c = "7" -> 7
      [] c = "8" -> 8 [] c = "9" -> 9 [] c = "U+0663" -> 3

\* int() of a text of decimal characters
RECURSIVE IntOf(_)
IntOf(t) == IF Len(t) = 0 THEN 0
            ELSE 10 * IntOf(SubSeq(t, 1, Len(t) - 1)) + DigitVal(t[Len(t)])

PhoneLen == 10

\* Phone.validate
validate(value) == isdigit(value) /\ Len(value) = PhoneLen

----------------------------------------------------------------------------
(* Calendar dates: datetime.date as [y, m, d].                             *)

IsLeap(y) == (y % 4 = 0 /\ y % 100 # 0) \/ y % 400 = 0

DaysInMonth(y, m) ==
    CASE m \in {1, 3, 5, 7, 8, 10, 12} -> 31
      [] m \in {4, 6, 9, 11} -> 30
      [] m = 2 -> IF IsLeap(y) THEN 29 ELSE 28

\* the argument check of the date constructor (ValueError otherwise)
IsDate(y, m, d) ==
    /\ y \in 1..9999
    /\ m \in 1..12
    /\ d >= 1
    /\ d <= DaysInMonth(y, m)

MkDate(y, m, d) == [y |-> y, m |-> m, d |-> d]

\* date.__le__
DateLE(a, b) ==
    \/ a.y < b.y
    \/ a.y = b.y /\ a.m < b.m
    \/ a.y = b.y /\ a.m = b.m /\ a.d <= b.d

NextDay(a) ==
    IF a.d < DaysInMonth(a.y, a.m) THEN MkDate(a.y, a.m, a.d + 1)
    ELSE IF a.m < 12 THEN MkDate(a.y, a.m + 1, 1)
    ELSE MkDate(a.y + 1, 1, 1)

\* date + timedelta(days=n), n >= 0
RECURSIVE AddDays(_, _)
AddDays(a, n) == IF n = 0 THEN a ELSE AddDays(NextDay(a), n - 1)

----------------------------------------------------------------------------
(* datetime.strptime(value, "%d.%m.%Y"): the format compiles to the regex  *)
(*   (?P<d>3[0-1]|[1-2]\d|0[1-9]|[1-9]| [1-9])\.                            *)
(*   (?P<m>1[0-2]|0[1-9]|[1-9])\.(?P<Y>\d\d\d\d)                            *)
(* matched at the start of the text; text left over is a ValueError, and   *)
(* so is a day the month does not have.                                    *)

OneToNine == AsciiDigits \ {"0"}

DayGroup(t) ==
    \/ Len(t) = 2 /\ t[1] = "3" /\ t[2] \in {"0", "1"}
    \/ Len(t) = 2 /\ t[1] \in {"1", "2"} /\ CharIsDecimal(t[2])
    \/ Len(t) = 2 /\ t[1] = "0" /\ t[2] \in OneToNine
    \/ Len(t) = 1 /\ t[1] \in OneToNine
    \/ Len(t) = 2 /\ t[1] = " " /\ t[2] \in OneToNine

MonthGroup(t) ==
    \/ Len(t) = 2 /\ t[1] = "1" /\ t[2] \in {"0", "1", "2"}
    \/ Len(t) = 2 /\ t[1] = "0" /\ t[2] \in OneToNine
    \/ Len(t) = 1 /\ t[1] \in OneToNine

YearGroup(t) == Len(t) = 4 /\ \A i \in 1..4 : CharIsDecimal(t[i])

\* the positions of the two "." of a match of the whole text: the day
\* group has one or two characters, and so has the month group
DotPairs(t) ==
    {p \in {2, 3} \X {4, 5, 6} :
        /\ p[2] <= Len(t)
        /\ p[2] - p[1] \in {2, 3}
        /\ t[p[1]] = "."
        /\ t[p[2]] = "."
        /\ DayGroup(SubSeq(t, 1, p[1] - 1))
        /\ MonthGroup(SubSeq(t, p[1] + 1, p[2] - 1))
        /\ YearGroup(SubSeq(t, p[2] + 1, Len(t)))}

\* int() of the day group: a leading space is skipped
DayOf(t) == IF t[1] = " " THEN DigitVal(t[2]) ELSE IntOf(t)

\* the fields strptime reads from a text the regex matches
Fields(t) ==
    LET p == CHOOSE q \in DotPairs(t) : TRUE
    IN  [y |-> IntOf(SubSeq(t, p[2] + 1, Len(t))),
         m |-> IntOf(SubSeq(t, p[1] + 1, p[2] - 1)),
         d |-> DayOf(SubSeq(t, 1, p[1] - 1))]

\* strptime returns (TRUE) or raises ValueError (FALSE)
strptime_ok(t) ==
    /\ DotPairs(t) # {}
    /\ LET f == Fields(t) IN IsDate(f.y, f.m, f.d)

\* Birthday.validate_date
validate_date(value) == strptime_ok(value)

\* Birthday.string_to_date, of a text validate_date accepts
string_to_date(date_string) == Fields(date_string)

----------------------------------------------------------------------------
(* Field, Record and AddressBook.  A record is [name, phone, birthday];    *)
(* phone and birthday are None or a field object holding the raw text.     *)
(* The AddressBook is the sequence of its records in dict order (the       *)
(* order in which the names were first inserted).                          *)

None == [set |-> FALSE, value |-> <<>>]

\* Field.__init__
Field(value) == [set |-> TRUE, value |-> value]

\* Field.__str__, and str(None)
str(field) == IF field.set THEN field.value ELSE <<"N", "o", "n", "e">>

\* Record.__init__
Record(name) == [name |-> name, phone |-> None, birthday |-> None]

\* Record.__str__: the values put into
\* "Contact name: {}, phone {}, birthday: {}"
RecordStr(r) ==
    <<r.name, str(r.phone),
      IF r.birthday.set THEN r.birthday.value ELSE <<"N", "/", "A">>>>

Keys(b) == {b[i].name : i \in 1..Len(b)}

IndexOf(b, name) == CHOOSE i \in 1..Len(b) : b[i].name = name

\* AddressBook.find: the record, or None when the name is no key
Has(b, name) == name \in Keys(b)
find(b, name) == b[IndexOf(b, name)]

\* AddressBook.add_record: self.data[record.name.value] = record
add_record(b, record) ==
    IF Has(b, record.name)
    THEN [b EXCEPT ![IndexOf(b, record.name)] = record]
    ELSE Append(b, record)

\* Record.add_phone and Record.edit_phone, of a phone Phone() accepts,
\* on the record the book holds under name
set_phone(b, name, phone) ==
    [b EXCEPT ![IndexOf(b, name)].phone = Field(phone)]

set_birthday_on_new_record(b, name, birthday) ==
    [b EXCEPT ![IndexOf(b, name)] =
        [name |-> name, phone |-> None, birthday |-> Field(birthday)]]

\* Record.add_birthday, of a birthday Birthday() accepts
set_birthday(b, name, birthday) ==
    [b EXCEPT ![IndexOf(b, name)].birthday = Field(birthday)]

----------------------------------------------------------------------------
(* AddressBook.get_upcoming_birthdays                                      *)

DefaultDays == 7

replace_year_never_raises(bday_date, year) == TRUE

\* date.replace(year=...) returns a date or raises ValueError
replace_year_ok(bday_date, year) == IsDate(year, bday_date.m, bday_date.d)

this_year_or_next(bday_date, today) ==
    IF DateLE(today, MkDate(today.y, bday_date.m, bday_date.d))
    THEN MkDate(today.y, bday_date.m, bday_date.d)
    ELSE MkDate(today.y + 1, bday_date.m, bday_date.d)

\* line 83: this_year_bday = bday_date.replace(year=today.year)
this_year_bday(bday_date, today) == MkDate(today.y, bday_date.m, bday_date.d)

in_window_exclusive(today, d, days) ==
    /\ DateLE(today, d)
    /\ DateLE(d, AddDays(today, days))
    /\ d # AddDays(today, days)

\* line 84: today <= this_year_bday <= today + timedelta(days=days)
in_window(today, d, days) ==
    /\ DateLE(today, d)
    /\ DateLE(d, AddDays(today, days))

Returned(list) == [raised |-> FALSE, list |-> list]
RaisedValueError == [raised |-> TRUE, list |-> <<>>]

\* the loop of lines 80-85 from the i-th record on
RECURSIVE upcoming_from(_, _, _, _)
upcoming_from(b, days, today, i) ==
    IF i > Len(b) THEN Returned(<<>>)
    ELSE IF ~b[i].birthday.set THEN upcoming_from(b, days, today, i + 1)
    ELSE LET bday_date == string_to_date(b[i].birthday.value)
         IN  IF ~replace_year_ok(bday_date, today.y) THEN RaisedValueError
             ELSE LET rest == upcoming_from(b, days, today, i + 1)
                  IN  IF rest.raised THEN rest
                      ELSE IF in_window(today, this_year_bday(bday_date, today), days)
                      THEN Returned(<<b[i]>> \o rest.list)
                      ELSE rest

get_upcoming_birthdays(b, days, today) == upcoming_from(b, days, today, 1)

----------------------------------------------------------------------------
(* The pickle file.                                                        *)

NoFile == [exists |-> FALSE, data |-> <<>>]

\* pickle of a field attribute: None, or the object's class and __dict__
dump_field(cls, field) ==
    IF field.set THEN [cls |-> cls, value |-> field.value]
    ELSE [cls |-> "NoneType", value |-> <<>>]

\* pickle.dump of the AddressBook: the items of self.data in order, each a
\* key and the Record's __dict__
dump(b) ==
    [i \in 1..Len(b) |->
        [key |-> b[i].name,
         name |-> dump_field("Name", Field(b[i].name)),
         phone |-> dump_field("Phone", b[i].phone),
         birthday |-> dump_field("Birthday", b[i].birthday)]]

\* unpickling restores the attribute without calling __init__
load_field(d) == IF d.cls = "NoneType" THEN None ELSE Field(d.value)

load_forgets_birthday(data) ==
    [i \in 1..Len(data) |->
        [name |-> data[i].name.value,
         phone |-> load_field(data[i].phone),
         birthday |-> None]]

\* pickle.load: the AddressBook with the same items
load(data) ==
    [i \in 1..Len(data) |->
        [name |-> data[i].name.value,
         phone |-> load_field(data[i].phone),
         birthday |-> load_field(data[i].birthday)]]

\* save_address_book: the file now holds the pickled book
save_address_book(b) == [exists |-> TRUE, data |-> dump(b)]

\* load_address_book: the unpickled book, or AddressBook() without a file
load_address_book(file) == IF file.exists THEN load(file.data) ELSE <<>>

----------------------------------------------------------------------------
(* The commands.  An execute body either returns a message or raises; it   *)
(* may have changed the book and the file by then.  A message is a fixed   *)
(* text or a format, with the lines of values the format is filled with.   *)

Return(b, file, didSave, msg, lines) ==
    [book |-> b, disk |-> file, saved |-> didSave,
     raised |-> "none", msg |-> msg, lines |-> lines]

Raise(b, file, exc, msg) ==
    [book |-> b, disk |-> file, saved |-> FALSE,
     raised |-> exc, msg |-> msg, lines |-> <<>>]

MsgForgot == "Maybe you forgot enter name or phone?"
MsgTenDigits == "Phone number must be 10 digits."
MsgAdded == "Contact added."
MsgUpdated == "Contact updated."
MsgNoName == "You did not enter the subscriber's name!"
MsgNoNewPhone == "You did not enter a new phone number!"
MsgPhoneUpdated == "Phone number updated."
MsgDateFormat == "Invalid date format. Use DD.MM.YYYY"
MsgBirthdayAdded == "Birthday added."
MsgNoBirthdays == "No birthdays in the next week!"
MsgIndexError == "You haven't entered a contact name or phone!"
MsgNotFound == "Contact is not found!"
\* str(e) of the ValueError of unpacking "name, x = args"
MsgTooFew == "not enough values to unpack (expected 2, got 1)"
MsgTooMany == "too many values to unpack (expected 2)"
\* str(e) of the ValueError of date.replace
MsgDayOutOfRange == "day is out of range for month"
FmtPair == "{name}: {value}"
FmtRecords == "one line per record"

AddContact_save_first(args, b, file) ==
    IF Len(args) < 2 THEN Raise(b, file, "ValueError", MsgForgot)
    ELSE LET name == args[1]
             phone == args[2]
             b1 == IF Has(b, name) THEN b ELSE add_record(b, Record(name))
         IN  IF Len(phone) > 0 /\ ~validate(phone)
             THEN Raise(b1, save_address_book(b1), "ValueError", MsgTenDigits)
             ELSE Return(IF Len(phone) > 0 THEN set_phone(b1, name, phone) ELSE b1,
                         save_address_book(b1), TRUE,
                         IF Has(b, name) THEN MsgUpdated ELSE MsgAdded, <<>>)

AddContact_new_record_each_time(args, b, file) ==
    IF Len(args) < 2 THEN Raise(b, file, "ValueError", MsgForgot)
    ELSE LET name == args[1]
             phone == args[2]
             b1 == add_record(b, Record(name))
         IN  IF Len(phone) > 0 /\ ~validate(phone)
             THEN Raise(b1, file, "ValueError", MsgTenDigits)
             ELSE LET b2 == IF Len(phone) > 0 THEN set_phone(b1, name, phone)
                            ELSE b1
                  IN  Return(b2, save_address_book(b2), TRUE,
                             IF Has(b, name) THEN MsgUpdated ELSE MsgAdded, <<>>)

\* AddContact.execute, lines 115-128
AddContact_execute(args, b, file) ==
    IF Len(args) < 2 THEN Raise(b, file, "ValueError", MsgForgot)
    ELSE LET name == args[1]
             phone == args[2]
             b1 == IF Has(b, name) THEN b ELSE add_record(b, Record(name))
         IN  IF Len(phone) > 0 /\ ~validate(phone)
             THEN Raise(b1, file, "ValueError", MsgTenDigits)
             ELSE LET b2 == IF Len(phone) > 0 THEN set_phone(b1, name, phone)
                            ELSE b1
                  IN  Return(b2, save_address_book(b2), TRUE,
                             IF Has(b, name) THEN MsgUpdated ELSE MsgAdded, <<>>)

\* ChangePhone.execute, lines 133-146
ChangePhone_execute(args, b, file) ==
    IF Len(args) < 1 THEN Raise(b, file, "ValueError", MsgNoName)
    ELSE IF Len(args) < 2 THEN Raise(b, file, "ValueError", MsgNoNewPhone)
    ELSE IF Len(args) > 2 THEN Raise(b, file, "ValueError", MsgTooMany)
    ELSE IF ~Has(b, args[1]) THEN Raise(b, file, "KeyError", "")
    ELSE IF ~validate(args[2]) THEN Raise(b, file, "ValueError", MsgTenDigits)
    ELSE LET b1 == set_phone(b, args[1], args[2])
         IN  Return(b1, save_address_book(b1), TRUE, MsgPhoneUpdated, <<>>)

\* GetPhone.execute, lines 151-156
GetPhone_execute(args, b, file) ==
    IF Len(args) < 1 THEN Raise(b, file, "IndexError", "")
    ELSE IF ~Has(b, args[1]) THEN Raise(b, file, "KeyError", "")
    ELSE Return(b, file, FALSE, FmtPair,
                <<<<args[1], str(find(b, args[1]).phone)>>>>)

\* ShowAll.execute, lines 161-162
ShowAll_execute(args, b, file) ==
    Return(b, file, FALSE, FmtRecords, [i \in 1..Len(b) |-> RecordStr(b[i])])

\* AddBirthday.execute, lines 167-174
AddBirthday_execute(args, b, file) ==
    IF Len(args) < 2 THEN Raise(b, file, "ValueError", MsgTooFew)
    ELSE IF Len(args) > 2 THEN Raise(b, file, "ValueError", MsgTooMany)
    ELSE IF ~Has(b, args[1]) THEN Raise(b, file, "KeyError", "")
    ELSE IF ~validate_date(args[2])
    THEN Raise(b, file, "ValueError", MsgDateFormat)
    ELSE LET b1 == set_birthday(b, args[1], args[2])
         IN  Return(b1, save_address_book(b1), TRUE, MsgBirthdayAdded, <<>>)

ShowBirthday_saves(args, b, file) ==
    IF Len(args) < 1 THEN Raise(b, file, "IndexError", "")
    ELSE IF ~Has(b, args[1]) THEN Raise(b, file, "KeyError", "")
    ELSE Return(b, save_address_book(b), TRUE, FmtPair,
                <<<<args[1], RecordStr(find(b, args[1]))[3]>>>>)

\* ShowBirthday.execute, lines 179-184
ShowBirthday_execute(args, b, file) ==
    IF Len(args) < 1 THEN Raise(b, file, "IndexError", "")
    ELSE IF ~Has(b, args[1]) THEN Raise(b, file, "KeyError", "")
    ELSE Return(b, file, FALSE, FmtPair,
                <<<<args[1], RecordStr(find(b, args[1]))[3]>>>>)

ShowBirthdays_eight_days(args, b, file, today) ==
    LET upcoming_birthdays == get_upcoming_birthdays(b, DefaultDays + 1, today)
    IN  IF upcoming_birthdays.raised
        THEN Raise(b, file, "ValueError", MsgDayOutOfRange)
        ELSE IF upcoming_birthdays.list = <<>>
        THEN Raise(b, file, "ValueError", MsgNoBirthdays)
        ELSE Return(b, file, FALSE, FmtRecords,
                    [i \in 1..Len(upcoming_birthdays.list) |->
                        RecordStr(upcoming_birthdays.list[i])])

\* ShowBirthdays.execute, lines 189-193
ShowBirthdays_execute(args, b, file, today) ==
    LET upcoming_birthdays == get_upcoming_birthdays(b, DefaultDays, today)
    IN  IF upcoming_birthdays.raised
        THEN Raise(b, file, "ValueError", MsgDayOutOfRange)
        ELSE IF upcoming_birthdays.list = <<>>
        THEN Raise(b, file, "ValueError", MsgNoBirthdays)
        ELSE Return(b, file, FALSE, FmtRecords,
                    [i \in 1..Len(upcoming_birthdays.list) |->
                        RecordStr(upcoming_birthdays.list[i])])

Message(msg, lines) == [escaped |-> "none", msg |-> msg, lines |-> lines]

input_error_misses_ValueError(res) ==
    CASE res.raised = "none" -> Message(res.msg, res.lines)
      [] res.raised = "IndexError" -> Message(MsgIndexError, <<>>)
      [] res.raised = "KeyError" -> Message(MsgNotFound, <<>>)
      [] OTHER -> [escaped |-> res.raised, msg |-> res.msg, lines |-> <<>>]

\* input_error, lines 94-105: what the wrapped execute gives the loop
input_error(res) ==
    CASE res.raised = "none" -> Message(res.msg, res.lines)
      [] res.raised = "IndexError" -> Message(MsgIndexError, <<>>)
      [] res.raised = "KeyError" -> Message(MsgNotFound, <<>>)
      [] res.raised = "ValueError" -> Message(res.msg, <<>>)
      [] OTHER -> [escaped |-> res.raised, msg |-> res.msg, lines |-> <<>>]

----------------------------------------------------------------------------
(* The dispatch loop calling one command (line 262).                       *)

NoDate == MkDate(0, 0, 0)
NoProbe == [fn |-> "none", text |-> <<>>, days |-> 0, today |-> NoDate]
NoVerdict == [called |-> FALSE, ok |-> FALSE, raised |-> FALSE, list |-> <<>>]

\* the phone arguments written so far, after cmd(args) ended as res
Written(cmd, args, res) ==
    IF cmd \in {"add", "change"} /\ res.raised = "none"
    THEN {w \in lastPhone : w[1] # args[1]} \cup {<<args[1], args[2]>>}
    ELSE lastPhone

Execute(cmd, args, today, res) ==
    /\ pc = "loop"
    /\ pc' = pc
    /\ lastPhone' = Written(cmd, args, res)
    /\ book' = res.book
    /\ disk' = res.disk
    /\ saved' = res.saved
    /\ outcome' = input_error(res)
    /\ lastCmd' = cmd
    /\ lastArgs' = args
    /\ lastToday' = today
    /\ pre' = book
    /\ preDisk' = disk

Dispatch(cmd, args, today, res) ==
    /\ Execute(cmd, args, today, res)
    /\ UNCHANGED <<probe, verdict>>

AddContact(args) == Dispatch("add", args, NoDate, AddContact_execute(args, book, disk))
ChangePhone(args) == Dispatch("change", args, NoDate, ChangePhone_execute(args, book, disk))
GetPhone(args) == Dispatch("phone", args, NoDate, GetPhone_execute(args, book, disk))
ShowAll(args) == Dispatch("all", args, NoDate, ShowAll_execute(args, book, disk))
AddBirthday(args) == Dispatch("add-birthday", args, NoDate, AddBirthday_execute(args, book, disk))
ShowBirthday(args) == Dispatch("show-birthday", args, NoDate, ShowBirthday_execute(args, book, disk))
ShowBirthdays(args, today) ==
    Dispatch("birthdays", args, today, ShowBirthdays_execute(args, book, disk, today))

----------------------------------------------------------------------------
(* Inputs.  parse_input splits the line on whitespace, so every argument   *)
(* is a non-empty text without whitespace.                                 *)

MaxArgs == 3
MaxProbeLen == 11

DigitChar(n) ==
    CASE n = 0 -> "0" [] n = 1 -> "1" [] n = 2 -> "2" [] n = 3 -> "3"
      [] n = 4 -> "4" [] n = 5 -> "5" [] n = 6 -> "6" [] n = 7 -> "7"
      [] n = 8 -> "8" [] n = 9 -> "9"

TwoDigits(n) == <<DigitChar(n \div 10), DigitChar(n % 10)>>

\* the text DD.MM.YYYY of day d, month m, year y
DateText(d, m, y) ==
    TwoDigits(d) \o <<".">> \o TwoDigits(m) \o <<".">>
        \o TwoDigits(y \div 100) \o TwoDigits(y % 100)

Alice == <<"A", "l", "i", "c", "e">>
Bob == <<"B", "o", "b">>
PhoneA == <<"0", "1", "2", "3", "4", "5", "6", "7", "8", "9">>
PhoneB == <<"9", "8", "7", "6", "5", "4", "3", "2", "1", "0">>
PhoneShort == <<"1", "2", "3", "4", "5">>
PhoneSuperscript == [i \in 1..PhoneLen |-> "U+00B2"]
BdayJune12 == DateText(12, 6, 1990)
BdayFeb29 == DateText(29, 2, 2000)
BdayFeb30 == DateText(30, 2, 2024)
BdayUnpadded == <<"1", ".", "6", ".", "1", "9", "9", "0">>
Filler == <<"x">>

Names == {Alice, Bob}
Tokens == {PhoneA, PhoneB, BdayFeb29}
\* 29 February is inside the week, outside it, and no day of the year
Todays == {MkDate(2024, 2, 25), MkDate(2024, 6, 10), MkDate(2023, 6, 10)}

RawNames == {Alice}
RawTokens == {PhoneA, PhoneShort, PhoneSuperscript, BdayJune12, BdayFeb30,
              BdayUnpadded}
RawTodays == {MkDate(2024, 6, 10)}

Fillers(k) == [i \in 1..k |-> Filler]

\* the argument lists of at most MaxArgs arguments: a name, a value, fillers
ArgListsOver(names, tokens) ==
    {<<>>} \cup {<<n>> : n \in names}
       \cup {<<n, t>> \o Fillers(k) :
                n \in names, t \in tokens, k \in 0..(MaxArgs - 2)}

\* the same lists for a command that reads at most its first argument
NameListsOver(names, tokens) ==
    {<<>>} \cup {<<n>> : n \in names}
       \cup {<<n, CHOOSE t \in tokens : TRUE>> \o Fillers(k) :
                n \in names, k \in 0..(MaxArgs - 2)}

\* and for a command that reads none
AnyListsOver(names, tokens) ==
    {<<>>}
       \cup {SubSeq(<<CHOOSE n \in names : TRUE, CHOOSE t \in tokens : TRUE>>
                        \o Fillers(MaxArgs - 2), 1, k) : k \in 1..MaxArgs}

NoOutcome == Message("", <<>>)

\* main, line 231: the process starts with no file and loads an empty book
Init ==
    /\ disk = NoFile
    /\ book = load_address_book(NoFile)
    /\ outcome = NoOutcome
    /\ lastCmd = "none"
    /\ lastArgs = <<>>
    /\ lastToday = NoDate
    /\ pre = <<>>
    /\ preDisk = NoFile
    /\ saved = FALSE
    /\ probe = NoProbe
    /\ verdict = NoVerdict
    /\ pc = "loop"
    /\ lastPhone = {}

Commands(names, tokens, todays) ==
    \/ \E args \in ArgListsOver(names, tokens) :
        \/ AddContact(args)
        \/ ChangePhone(args)
        \/ AddBirthday(args)
    \/ \E args \in NameListsOver(names, tokens) :
        \/ GetPhone(args)
        \/ ShowBirthday(args)
    \/ \E args \in AnyListsOver(names, tokens) :
        \/ ShowAll(args)
        \/ \E today \in todays : ShowBirthdays(args, today)

MsgGoodBye == "Good bye!"
MsgWelcome == "Welcome to the assistant bot!"

\* main, lines 253-256: close or exit saves the book and ends the loop
SaveAndLeave ==
    /\ pc = "loop"
    /\ pc' = "exited"
    /\ disk' = save_address_book(book)
    /\ saved' = TRUE
    /\ outcome' = Message(MsgGoodBye, <<>>)
    /\ lastCmd' = "exit"
    /\ lastArgs' = <<>>
    /\ lastToday' = NoDate
    /\ pre' = book
    /\ preDisk' = disk
    /\ UNCHANGED <<book, lastPhone>>

Exit == SaveAndLeave /\ UNCHANGED <<probe, verdict>>

\* main, lines 231-234, of a new process: the book is loaded from the file;
\* pre is the book the process before held when it ended
Start ==
    /\ pc \in {"exited", "crashed"}
    /\ pc' = "loop"
    /\ book' = load_address_book(disk)
    /\ saved' = FALSE
    /\ outcome' = Message(MsgWelcome, <<>>)
    /\ lastCmd' = "start"
    /\ lastArgs' = <<>>
    /\ lastToday' = NoDate
    /\ pre' = book
    /\ preDisk' = disk
    /\ UNCHANGED <<disk, probe, verdict, lastPhone>>

Next == Commands(Names, Tokens, Todays) \/ Exit \/ Start

Spec == Init /\ [][Next]_vars

\* the same loop fed raw texts of other shapes
NextRaw == Commands(RawNames, RawTokens, RawTodays)

SpecRaw == Init /\ [][NextRaw]_vars

----------------------------------------------------------------------------
(* The loop of main reading whole lines (lines 246-266).                   *)

Whitespace == {" ", "TAB"}

\* str.split(): the maximal runs of characters that are no whitespace,
\* from the i-th character on, cur being the run read so far
RECURSIVE split_from(_, _, _)
split_from(t, i, cur) ==
    IF i > Len(t) THEN (IF cur = <<>> THEN <<>> ELSE <<cur>>)
    ELSE IF t[i] \in Whitespace
    THEN (IF cur = <<>> THEN <<>> ELSE <<cur>>) \o split_from(t, i + 1, <<>>)
    ELSE split_from(t, i + 1, Append(cur, t[i]))

split(t) == split_from(t, 1, <<>>)

UpperCase ==
    <<"A", "B", "C", "D", "E", "F", "G", "H", "I", "J", "K", "L", "M",
      "N", "O", "P", "Q", "R", "S", "T", "U", "V", "W", "X", "Y", "Z">>
LowerCase ==
    <<"a", "b", "c", "d", "e", "f", "g", "h", "i", "j", "k", "l", "m",
      "n", "o", "p", "q", "r", "s", "t", "u", "v", "w", "x", "y", "z">>

\* str.lower()
lower(t) ==
    [i \in 1..Len(t) |->
        IF \E k \in 1..Len(UpperCase) : UpperCase[k] = t[i]
        THEN LowerCase[CHOOSE k \in 1..Len(UpperCase) : UpperCase[k] = t[i]]
        ELSE t[i]]

\* parse_input: cmd, *args = user_input.split() raises ValueError when the
\* line has no word
parse_input_ok(user_input) == split(user_input) # <<>>

parse_input(user_input) ==
    [cmd |-> lower(split(user_input)[1]),
     args |-> SubSeq(split(user_input), 2, Len(split(user_input)))]

WordAdd == <<"a", "d", "d">>
WordChange == <<"c", "h", "a", "n", "g", "e">>
WordPhone == <<"p", "h", "o", "n", "e">>
WordAll == <<"a", "l", "l">>
WordAddBirthday == <<"a", "d", "d", "-", "b", "i", "r", "t", "h", "d", "a", "y">>
WordShowBirthday ==
    <<"s", "h", "o", "w", "-", "b", "i", "r", "t", "h", "d", "a", "y">>
WordBirthdays == <<"b", "i", "r", "t", "h", "d", "a", "y", "s">>
WordHello == <<"h", "e", "l", "l", "o">>
WordClose == <<"c", "l", "o", "s", "e">>
WordExit == <<"e", "x", "i", "t">>

\* the keys of the commands dict of main, lines 236-244
CommandWords ==
    {WordAdd, WordChange, WordPhone, WordAll, WordAddBirthday,
     WordShowBirthday, WordBirthdays}

CommandName(word) ==
    CASE word = WordAdd -> "add"
      [] word = WordChange -> "change"
      [] word = WordPhone -> "phone"
      [] word = WordAll -> "all"
      [] word = WordAddBirthday -> "add-birthday"
      [] word = WordShowBirthday -> "show-birthday"
      [] word = WordBirthdays -> "birthdays"

\* commands[command].execute(args, book)
execute(word, args, b, file, today) ==
    CASE word = WordAdd -> AddContact_execute(args, b, file)
      [] word = WordChange -> ChangePhone_execute(args, b, file)
      [] word = WordPhone -> GetPhone_execute(args, b, file)
      [] word = WordAll -> ShowAll_execute(args, b, file)
      [] word = WordAddBirthday -> AddBirthday_execute(args, b, file)
      [] word = WordShowBirthday -> ShowBirthday_execute(args, b, file)
      [] word = WordBirthdays -> ShowBirthdays_execute(args, b, file, today)

MsgNothing == "You have not entered anything"
MsgHelp == "How can I help you?"
MsgInvalid == "Invalid command."
\* str(e) of the ValueError of "cmd, *args = []"
MsgNoWords == "not enough values to unpack (expected at least 1, got 0)"

\* cui.get_input returned the line
Read(line) ==
    /\ probe' = [NoProbe EXCEPT !.fn = "get_input", !.text = line]
    /\ verdict' = verdict

\* an iteration of the loop that calls no command and changes no state
Answer(kind, msg) ==
    /\ pc = "loop"
    /\ pc' = pc
    /\ outcome' = Message(msg, <<>>)
    /\ lastCmd' = kind
    /\ lastArgs' = <<>>
    /\ lastToday' = NoDate
    /\ pre' = book
    /\ preDisk' = disk
    /\ saved' = FALSE
    /\ UNCHANGED <<book, disk, lastPhone>>

\* lines 248-250
LineEmpty(line) ==
    /\ line = <<>>
    /\ Read(line)
    /\ Answer("(empty)", MsgNothing)

\* line 251 raises: nothing in main catches it, the process ends with a
\* traceback and without saving
LineWithoutWord(line) ==
    /\ line # <<>>
    /\ ~parse_input_ok(line)
    /\ Read(line)
    /\ pc = "loop"
    /\ pc' = "crashed"
    /\ outcome' = [escaped |-> "ValueError", msg |-> MsgNoWords, lines |-> <<>>]
    /\ lastCmd' = "(no word)"
    /\ lastArgs' = <<>>
    /\ lastToday' = NoDate
    /\ pre' = book
    /\ preDisk' = disk
    /\ saved' = FALSE
    /\ UNCHANGED <<book, disk, lastPhone>>

\* lines 253-256
LineExit(line) ==
    /\ line # <<>>
    /\ parse_input_ok(line)
    /\ parse_input(line).cmd \in {WordClose, WordExit}
    /\ Read(line)
    /\ SaveAndLeave

\* lines 258-259
LineHello(line) ==
    /\ line # <<>>
    /\ parse_input_ok(line)
    /\ parse_input(line).cmd = WordHello
    /\ Read(line)
    /\ Answer("hello", MsgHelp)

\* lines 261-263
LineCommand(line, today) ==
    /\ line # <<>>
    /\ parse_input_ok(line)
    /\ parse_input(line).cmd \in CommandWords
    /\ Read(line)
    /\ LET cmd == parse_input(line).cmd
           args == parse_input(line).args
           day == IF cmd = WordBirthdays THEN today ELSE NoDate
       IN  Execute(CommandName(cmd), args, day,
                   execute(cmd, args, book, disk, day))

\* lines 265-266
LineInvalid(line) ==
    /\ line # <<>>
    /\ parse_input_ok(line)
    /\ parse_input(line).cmd
          \notin CommandWords \cup {WordClose, WordExit, WordHello}
    /\ Read(line)
    /\ Answer("(invalid)", MsgInvalid)

\* words joined by single spaces
RECURSIVE Join(_)
Join(words) ==
    IF Len(words) = 0 THEN <<>>
    ELSE IF Len(words) = 1 THEN words[1]
    ELSE words[1] \o <<" ">> \o Join(Tail(words))

Lines ==
    {<<>>, <<" ">>, <<" ", "TAB", " ">>,
     WordHello, <<"H", "e", "l", "l", "o">>, <<"f", "o", "o">>,
     WordExit, Join(<<WordClose, Filler>>),
     Join(<<WordAdd, Alice, PhoneA>>),
     <<" ", " ">> \o Join(<<<<"A", "D", "D">>, Bob, PhoneB>>) \o <<" ">>,
     Join(<<WordAdd, Alice, PhoneShort>>),
     Join(<<WordAdd, Bob>>),
     Join(<<WordChange, Alice, PhoneB>>),
     Join(<<WordChange, Bob, PhoneA, Filler>>),
     Join(<<WordPhone, Alice>>),
     Join(<<WordPhone>>),
     WordAll,
     Join(<<WordAddBirthday, Alice, BdayJune12>>),
     Join(<<WordAddBirthday, Bob, BdayFeb30>>),
     Join(<<WordShowBirthday, Alice>>),
     WordBirthdays}

NextLoop ==
    \/ \E line \in Lines :
        \/ LineEmpty(line)
        \/ LineWithoutWord(line)
        \/ LineExit(line)
        \/ LineHello(line)
        \/ \E today \in RawTodays : LineCommand(line, today)
        \/ LineInvalid(line)
    \/ Start

SpecLoop == Init /\ [][NextLoop]_vars

----------------------------------------------------------------------------
(* Direct calls of the validators on texts of every length up to           *)
(* MaxProbeLen: one character repeated, with at most one character of the  *)
(* text replaced by another.                                               *)

ProbeChars == {"0", "7", "U+0663", "U+00B2", "a", "-", " "}

PhoneProbes ==
    {[i \in 1..n |-> IF i = k THEN c ELSE d] :
        n \in 0..MaxProbeLen, k \in 0..MaxProbeLen,
        c \in ProbeChars, d \in ProbeChars}

\* day, month and year written with or without padding, and other shapes
DateProbes ==
    {DateText(d, m, y) : d \in {0, 1, 28, 29, 30, 31, 32},
                         m \in {0, 1, 2, 4, 12, 13},
                         y \in {0, 1990, 2000, 2023, 2024}}
      \cup {BdayUnpadded, PhoneA, <<>>,
            <<"1", "-", "1", "-", "2", "0", "2", "0">>,
            <<"2", "0", "2", "0", ".", "0", "1", ".", "0", "1">>,
            <<"1", "2", ".", "0", "6", ".", "9", "0">>,
            <<"1", "2", ".", "0", "6", ".", "1", "9", "9", "0", "x">>,
            <<"1", "U+0663", ".", "0", "6", ".", "1", "9", "9", "0">>}

InitFields ==
    /\ Init!1 /\ Init!2 /\ Init!3 /\ Init!4 /\ Init!5 /\ Init!6 /\ Init!7
    /\ Init!8 /\ Init!9 /\ Init!12 /\ Init!13
    /\ probe \in {[NoProbe EXCEPT !.fn = "Phone.validate", !.text = t] :
                     t \in PhoneProbes}
            \cup {[NoProbe EXCEPT !.fn = "Birthday.validate_date", !.text = t] :
                     t \in DateProbes}
    /\ verdict = NoVerdict

CallValidate ==
    /\ probe.fn = "Phone.validate"
    /\ ~verdict.called
    /\ verdict' = [NoVerdict EXCEPT !.called = TRUE, !.ok = validate(probe.text)]
    /\ UNCHANGED <<book, disk, outcome, lastCmd, lastArgs, lastToday, pre,
                   preDisk, saved, probe, pc, lastPhone>>

CallValidateDate ==
    /\ probe.fn = "Birthday.validate_date"
    /\ ~verdict.called
    /\ verdict' = [NoVerdict EXCEPT !.called = TRUE,
                                    !.ok = validate_date(probe.text)]
    /\ UNCHANGED <<book, disk, outcome, lastCmd, lastArgs, lastToday, pre,
                   preDisk, saved, probe, pc, lastPhone>>

NextFields == CallValidate \/ CallValidateDate

SpecFields == InitFields /\ [][NextFields]_vars

----------------------------------------------------------------------------
(* The birthday query on books the commands can build: every record has a  *)
(* phone and has no birthday or one of Birthdays, and the file holds the   *)
(* book, as after the last add or add-birthday.                            *)

Birthdays ==
    {DateText(5, 6, 1990), DateText(10, 6, 1990), DateText(12, 6, 1990),
     DateText(17, 6, 1990), DateText(18, 6, 1990), DateText(20, 6, 1990),
     DateText(2, 1, 1990), DateText(5, 1, 1990), DateText(6, 1, 1990),
     DateText(29, 2, 2000)}

QueryTodays ==
    {MkDate(2024, 6, 10), MkDate(2023, 6, 10), MkDate(2024, 12, 29),
     MkDate(2023, 12, 29), MkDate(2024, 2, 25)}

Windows == {0, 1, DefaultDays}

BirthdayFields == {None} \cup {Field(t) : t \in {x \in Birthdays : validate_date(x)}}

BuiltRecord(name, birthday) ==
    [name |-> name, phone |-> Field(PhoneA), birthday |-> birthday]

BuiltBooks ==
    {<<>>}
      \cup {<<BuiltRecord(n, x)>> : n \in Names, x \in BirthdayFields}
      \cup {<<BuiltRecord(n[1], x), BuiltRecord(n[2], y)>> :
               n \in {q \in Names \X Names : q[1] # q[2]},
               x \in BirthdayFields, y \in BirthdayFields}

InitBirthdays ==
    /\ book \in BuiltBooks
    /\ disk = save_address_book(book)
    /\ outcome = NoOutcome
    /\ lastCmd = "none"
    /\ lastArgs = <<>>
    /\ lastToday = NoDate
    /\ pre = book
    /\ preDisk = disk
    /\ saved = FALSE
    /\ probe \in {[NoProbe EXCEPT !.fn = "get_upcoming_birthdays",
                                  !.days = days, !.today = today] :
                     days \in Windows, today \in QueryTodays}
    /\ verdict = NoVerdict
    /\ pc = "loop"
    /\ lastPhone = {<<book[i].name, book[i].phone.value>> : i \in 1..Len(book)}

\* book.get_upcoming_birthdays(days) called on the day probe.today
CallUpcoming ==
    /\ ~verdict.called
    /\ lastCmd = "none"
    /\ verdict' = LET r == get_upcoming_birthdays(book, probe.days, probe.today)
                  IN  [called |-> TRUE, ok |-> ~r.raised, raised |-> r.raised,
                       list |-> r.list]
    /\ UNCHANGED <<book, disk, outcome, lastCmd, lastArgs, lastToday, pre,
                   preDisk, saved, probe, pc, lastPhone>>

\* the birthdays command entered on the day probe.today
CallShowBirthdays ==
    /\ ~verdict.called
    /\ lastCmd = "none"
    /\ ShowBirthdays(<<>>, probe.today)

NextBirthdays == CallUpcoming \/ CallShowBirthdays

SpecBirthdays == InitBirthdays /\ [][NextBirthdays]_vars

----------------------------------------------------------------------------
(* The claims.                                                             *)

ErrorMessages ==
    {MsgForgot, MsgTenDigits, MsgNoName, MsgNoNewPhone, MsgDateFormat,
     MsgNoBirthdays, MsgIndexError, MsgNotFound, MsgTooFew, MsgTooMany,
     MsgDayOutOfRange}

SuccessMessages == {MsgAdded, MsgUpdated, MsgPhoneUpdated, MsgBirthdayAdded}

\* a text of exactly 10 ASCII decimal digits
TenAsciiDigits(t) == Len(t) = 10 /\ \A i \in 1..Len(t) : t[i] \in AsciiDigits

\* C1: a command that returns an error outcome leaves the address book as
\* it was before the command: the same names, and the same phone and
\* birthday for each name.
C1_ErrorLeavesBookUnchanged ==
    outcome.msg \in ErrorMessages => book = pre

\* C2: every invocation of a command, with an argument list of any length,
\* returns a displayable message to the dispatch loop; no exception escapes.
C2_NoErrorEscapes ==
    lastCmd # "none" => outcome.escaped = "none"

C2_Witness ==
    \/ lastCmd = "add-birthday" /\ Len(lastArgs) > 2 /\ outcome.msg = MsgTooMany
    \/ lastCmd = "birthdays" /\ Len(lastArgs) > 2
          /\ outcome.msg = MsgDayOutOfRange

\* C3: when a mutating command (add, change, add-birthday) returns its
\* success message, it has saved after the mutation: the persisted book
\* equals the in-memory book, which holds the mutation.
C3_SuccessIsSaved ==
    (lastCmd \in {"add", "change", "add-birthday"}
        /\ outcome.msg \in SuccessMessages)
    => /\ saved
       /\ disk.exists
       /\ load_address_book(disk) = book

C3_Witness ==
    /\ lastCmd = "add"
    /\ outcome.msg = MsgAdded
    /\ book # pre
    /\ saved
    /\ load_address_book(disk) = book
    /\ load_address_book(preDisk) = pre

\* C4: Add Contact(name, phone) with a valid phone leaves exactly one record
\* for name, holding that phone; the outcome is "Contact added." iff name
\* had no record, and "Contact updated." otherwise; an existing record keeps
\* its birthday and its place, and every other record is unchanged.
C4_AddContactSetsPhone ==
    (lastCmd = "add" /\ Len(lastArgs) >= 2 /\ TenAsciiDigits(lastArgs[2]))
    => LET name == lastArgs[1]
           at == {i \in 1..Len(book) : book[i].name = name}
           was == {i \in 1..Len(pre) : pre[i].name = name}
       IN  /\ Cardinality(at) = 1
           /\ \A i \in at : book[i].phone = [set |-> TRUE, value |-> lastArgs[2]]
           /\ outcome.msg = (IF was = {} THEN MsgAdded ELSE MsgUpdated)
           /\ \A i \in was : i \in at /\ book[i].birthday = pre[i].birthday
           /\ Len(book) = Len(pre) + (IF was = {} THEN 1 ELSE 0)
           /\ \A i \in (1..Len(pre)) \ was : book[i] = pre[i]

C4_Witness ==
    /\ lastCmd = "add"
    /\ Len(lastArgs) >= 2
    /\ TenAsciiDigits(lastArgs[2])
    /\ outcome.msg = MsgUpdated
    /\ Len(book) = 2
    /\ \E i \in 1..Len(pre) :
          /\ pre[i].name = lastArgs[1]
          /\ pre[i].birthday.set
          /\ pre[i].phone.set
          /\ pre[i].phone.value # lastArgs[2]
          /\ book[i].phone.value = lastArgs[2]

\* C5: Change Phone reports an argument error when fewer than 2 arguments
\* are given, "Contact is not found!" when the name has no record (also
\* when the phone is invalid), and the validation error when the record
\* exists but the new phone is invalid; in none of these cases is a record
\* created, a phone changed, or a save performed.
C5_ChangePhoneErrors ==
    lastCmd = "change"
    => /\ Len(lastArgs) < 2 => outcome.msg \in {MsgNoName, MsgNoNewPhone}
       /\ (Len(lastArgs) >= 2 /\ lastArgs[1] \notin Keys(pre))
             => outcome.msg = MsgNotFound
       /\ (Len(lastArgs) >= 2 /\ lastArgs[1] \in Keys(pre)
              /\ ~TenAsciiDigits(lastArgs[2]))
             => outcome.msg = MsgTenDigits
       /\ outcome.msg \in ErrorMessages
             => book = pre /\ ~saved /\ disk = preDisk

\* a text DD.MM.YYYY: two digits, a dot, two digits, a dot, four digits
IsDDMMYYYY(t) ==
    /\ Len(t) = 10
    /\ t[3] = "." /\ t[6] = "."
    /\ \A i \in {1, 2, 4, 5, 7, 8, 9, 10} : t[i] \in AsciiDigits

\* day, month and year of a text DD.MM.YYYY, read digit by digit
TextDay(t) == 10 * DigitVal(t[1]) + DigitVal(t[2])
TextMonth(t) == 10 * DigitVal(t[4]) + DigitVal(t[5])
TextYear(t) ==
    1000 * DigitVal(t[7]) + 100 * DigitVal(t[8]) + 10 * DigitVal(t[9])
        + DigitVal(t[10])

\* C6: every phone stored in a record is exactly 10 decimal digits and
\* every birthday stored in a record is a DD.MM.YYYY text denoting an
\* existing calendar date.
C6_StoredFieldsWellFormed ==
    \A i \in 1..Len(book) :
        /\ book[i].phone.set =>
              /\ Len(book[i].phone.value) = 10
              /\ \A k \in 1..Len(book[i].phone.value) :
                    book[i].phone.value[k] \in AsciiDigits \cup OtherDecimals
        /\ book[i].birthday.set =>
              /\ IsDDMMYYYY(book[i].birthday.value)
              /\ IsDate(TextYear(book[i].birthday.value),
                        TextMonth(book[i].birthday.value),
                        TextDay(book[i].birthday.value))

\* C7: Phone.validate accepts a text if and only if it is exactly 10
\* characters long and every character is an ASCII decimal digit.
C7_PhoneAcceptsIffTenAsciiDigits ==
    (probe.fn = "Phone.validate" /\ verdict.called)
    => (verdict.ok <=> TenAsciiDigits(probe.text))

\* The number of the day (y, m, d) counted from 1 January of year 1.
DaysBeforeMonth(y, m) ==
    <<0, 31, 59, 90, 120, 151, 181, 212, 243, 273, 304, 334>>[m]
        + (IF m > 2 /\ IsLeap(y) THEN 1 ELSE 0)

Ordinal(y, m, d) ==
    365 * (y - 1) + ((y - 1) \div 4) - ((y - 1) \div 100) + ((y - 1) \div 400)
        + DaysBeforeMonth(y, m) + d

\* the month and day of the birthday, placed in year y, are a date
InYear(r, y) ==
    ~(TextMonth(r.birthday.value) = 2 /\ TextDay(r.birthday.value) = 29
        /\ ~IsLeap(y))

\* how many days after today the birthday falls in today's year
DaysUntil(r, today) ==
    Ordinal(today.y, TextMonth(r.birthday.value), TextDay(r.birthday.value))
        - Ordinal(today.y, today.m, today.d)

\* the record has a birthday that, placed in today's year, gives a date d
\* with today <= d <= today + days
Qualifies(r, today, days) ==
    /\ r.birthday.set
    /\ InYear(r, today.y)
    /\ DaysUntil(r, today) >= 0
    /\ DaysUntil(r, today) <= days

QualifyingRecords(b, today, days) ==
    LET Test(r) == Qualifies(r, today, days) IN SelectSeq(b, Test)

\* some record's birthday is 29 February and today's year has no such day
NoSuchDay(b, today) ==
    \E i \in 1..Len(b) : b[i].birthday.set /\ ~InYear(b[i], today.y)

\* C8 as stated: get_upcoming_birthdays(days) returns exactly the records
\* that qualify, in the book's order.
C8_UpcomingReturnsQualifying ==
    (probe.fn = "get_upcoming_birthdays" /\ verdict.called)
    => /\ verdict.ok
       /\ verdict.list = QualifyingRecords(book, probe.today, probe.days)

\* C8 amended: get_upcoming_birthdays(days) raises ValueError when some
\* record's birthday is 29 February and today's year is not a leap year;
\* otherwise it returns exactly the records that qualify, in the book's
\* order.
C8_UpcomingReturnsQualifyingOrRaises ==
    (probe.fn = "get_upcoming_birthdays" /\ verdict.called)
    => IF NoSuchDay(book, probe.today)
       THEN verdict.raised
       ELSE /\ verdict.ok
            /\ verdict.list = QualifyingRecords(book, probe.today, probe.days)

\* today and a birthday at each end of the window, and one just outside
C8_Witness ==
    /\ probe.fn = "get_upcoming_birthdays"
    /\ verdict.called
    /\ probe.today = MkDate(2024, 6, 10)
    /\ probe.days = 7
    /\ Len(book) = 2
    /\ \/ /\ book[1].birthday = [set |-> TRUE, value |-> DateText(18, 6, 1990)]
          /\ book[2].birthday = [set |-> TRUE, value |-> DateText(17, 6, 1990)]
          /\ verdict.list = <<book[2]>>
       \/ /\ book[1].birthday = [set |-> TRUE, value |-> DateText(10, 6, 1990)]
          /\ book[2].birthday = [set |-> TRUE, value |-> DateText(5, 6, 1990)]
          /\ verdict.list = <<book[1]>>

\* the window today..today+days ends in the year after today's
CrossesYearEnd(today, days) ==
    Ordinal(today.y, today.m, today.d) + days > Ordinal(today.y, 12, 31)

\* the birthday's month and day fall in the part of the window that lies
\* in the next year
InNextYearPart(r, today, days) ==
    /\ r.birthday.set
    /\ InYear(r, today.y + 1)
    /\ Ordinal(today.y + 1, TextMonth(r.birthday.value),
               TextDay(r.birthday.value))
          <= Ordinal(today.y, today.m, today.d) + days

\* C9: when the window crosses 31 December, a birthday whose month and day
\* fall in the part of the window lying in the next year is not returned.
C9_NextYearPartNotReturned ==
    (probe.fn = "get_upcoming_birthdays" /\ verdict.called
        /\ CrossesYearEnd(probe.today, probe.days))
    => \A i \in 1..Len(book) :
          InNextYearPart(book[i], probe.today, probe.days)
          => \A k \in 1..Len(verdict.list) : verdict.list[k] # book[i]

C9_Witness ==
    /\ probe.fn = "get_upcoming_birthdays"
    /\ verdict.called
    /\ verdict.ok
    /\ probe.today = MkDate(2024, 12, 29)
    /\ probe.days = 7
    /\ \E i \in 1..Len(book) :
          /\ book[i].birthday = [set |-> TRUE, value |-> DateText(2, 1, 1990)]
          /\ InNextYearPart(book[i], probe.today, probe.days)
    /\ verdict.list = <<>>

\* the lines Show Birthdays renders for the records rs
RenderedLines(rs) ==
    [i \in 1..Len(rs) |->
        <<rs[i].name, rs[i].phone.value, rs[i].birthday.value>>]

\* C10 as stated: Show Birthdays returns "No birthdays in the next week!"
\* when no record qualifies for the 7-day window, and otherwise one
\* rendered line for each qualifying record and for no other record.
C10_ShowBirthdaysSevenDays ==
    lastCmd = "birthdays"
    => LET rs == QualifyingRecords(book, lastToday, 7)
       IN  IF rs = <<>>
           THEN outcome.msg = MsgNoBirthdays
           ELSE outcome.msg = FmtRecords /\ outcome.lines = RenderedLines(rs)

\* C10 amended: Show Birthdays returns the error message "day is out of
\* range for month" when some record's birthday is 29 February and today's
\* year is not a leap year; otherwise it returns "No birthdays in the next
\* week!" when no record qualifies for the 7-day window, and else one
\* rendered line for each qualifying record and for no other record.
C10_ShowBirthdaysSevenDaysOrError ==
    lastCmd = "birthdays"
    => LET rs == QualifyingRecords(book, lastToday, 7)
       IN  IF NoSuchDay(book, lastToday)
           THEN outcome.msg = MsgDayOutOfRange
           ELSE IF rs = <<>>
           THEN outcome.msg = MsgNoBirthdays
           ELSE outcome.msg = FmtRecords /\ outcome.lines = RenderedLines(rs)

C10_Witness ==
    /\ lastCmd = "birthdays"
    /\ lastToday = MkDate(2024, 6, 10)
    /\ Len(book) = 2
    /\ book[1].birthday = [set |-> TRUE, value |-> DateText(17, 6, 1990)]
    /\ book[2].birthday = [set |-> TRUE, value |-> DateText(18, 6, 1990)]
    /\ outcome.msg = FmtRecords
    /\ Len(outcome.lines) = 1
    /\ outcome.lines[1][1] = book[1].name

SevenCommands ==
    {"add", "change", "phone", "all", "add-birthday", "show-birthday",
     "birthdays"}

\* C11: Get Phone(name) on a name that has a record returns "name: p" with
\* p the phone argument of the most recent successful Add Contact or Change
\* Phone for that name; on a name with no record it returns "Contact is
\* not found!".
C11_GetPhoneReadsLastWrite ==
    (lastCmd = "phone" /\ Len(lastArgs) >= 1)
    => IF lastArgs[1] \in Keys(pre)
       THEN \E w \in lastPhone :
               /\ w[1] = lastArgs[1]
               /\ outcome.msg = FmtPair
               /\ outcome.lines = <<<<lastArgs[1], w[2]>>>>
       ELSE outcome.msg = MsgNotFound

\* C12: close or exit saves the book, and the load of a new session then
\* yields a book with the same names in the same order, and the same phone
\* and birthday per name, as the in-memory book at the moment of exit; a
\* load with no saved file yields an empty book.
C12_ExitSavesAndLoadRestores ==
    /\ lastCmd = "exit" => saved /\ disk.exists /\ disk.data = dump(book)
    /\ (lastCmd = "start" /\ pc = "loop" /\ disk.exists) => book = pre
    /\ (lastCmd \in {"none", "start"} /\ ~disk.exists) => book = <<>>

\* a new session holds a book with a phone and a birthday, and one record
\* without phone, loaded from the file the exit wrote
C12_Witness ==
    /\ lastCmd = "start"
    /\ book = pre
    /\ Len(book) = 2
    /\ \E i \in 1..2 : book[i].phone.set /\ book[i].birthday.set
    /\ \E i \in 1..2 : ~book[i].phone.set

\* C13: a successful Change Phone changes only the phone of the named
\* record, and a successful Add Birthday only its birthday; the record's
\* name and other field and every other record are unchanged.
C13_IndependentReplacement ==
    /\ (lastCmd = "change" /\ outcome.msg = MsgPhoneUpdated)
       => /\ Len(book) = Len(pre)
          /\ \A i \in 1..Len(pre) :
                /\ book[i].name = pre[i].name
                /\ book[i].birthday = pre[i].birthday
                /\ book[i].phone =
                      IF pre[i].name = lastArgs[1]
                      THEN [set |-> TRUE, value |-> lastArgs[2]]
                      ELSE pre[i].phone
    /\ (lastCmd = "add-birthday" /\ outcome.msg = MsgBirthdayAdded)
       => /\ Len(book) = Len(pre)
          /\ \A i \in 1..Len(pre) :
                /\ book[i].name = pre[i].name
                /\ book[i].phone = pre[i].phone
                /\ book[i].birthday =
                      IF pre[i].name = lastArgs[1]
                      THEN [set |-> TRUE, value |-> lastArgs[2]]
                      ELSE pre[i].birthday

C13_Witness ==
    /\ lastCmd = "add-birthday"
    /\ outcome.msg = MsgBirthdayAdded
    /\ Len(book) = 2
    /\ \A i \in 1..2 : pre[i].phone.set
    /\ \E i \in 1..2 : ~pre[i].birthday.set /\ book[i].birthday.set
    /\ \E i \in 1..2 : pre[i].birthday.set /\ pre[i].name # lastArgs[1]

\* C14: no command removes a name from the address book; a name enters it
\* only through an Add Contact for a name that had no record; Change Phone
\* and Add Birthday on an unknown name report "Contact is not found!" and
\* create no record.
C14_RecordLifecycle ==
    lastCmd \in SevenCommands
    => /\ Keys(pre) \subseteq Keys(book)
       /\ Keys(book) # Keys(pre)
             => /\ lastCmd = "add"
                /\ Len(lastArgs) >= 2
                /\ Keys(book) = Keys(pre) \cup {lastArgs[1]}
                /\ lastArgs[1] \notin Keys(pre)
       /\ (lastCmd \in {"change", "add-birthday"} /\ Len(lastArgs) >= 2
              /\ lastArgs[1] \notin Keys(pre))
             => outcome.msg = MsgNotFound /\ book = pre

\* C15: when today's year is not a leap year and some record has its
\* birthday on 29 February, get_upcoming_birthdays raises instead of
\* returning a list, and Show Birthdays returns the error message and lists
\* no record, also when other records fall inside the 7-day window.
C15_LeapDayRaises ==
    /\ (probe.fn = "get_upcoming_birthdays" /\ verdict.called
           /\ NoSuchDay(book, probe.today))
       => verdict.raised /\ ~verdict.ok /\ verdict.list = <<>>
    /\ (lastCmd = "birthdays" /\ NoSuchDay(book, lastToday))
       => /\ outcome.escaped = "none"
          /\ outcome.msg = MsgDayOutOfRange
          /\ outcome.lines = <<>>

C15_Witness ==
    /\ lastCmd = "birthdays"
    /\ lastToday = MkDate(2023, 6, 10)
    /\ Len(book) = 2
    /\ book[1].birthday = [set |-> TRUE, value |-> DateText(12, 6, 1990)]
    /\ book[2].birthday = [set |-> TRUE, value |-> DateText(29, 2, 2000)]
    /\ Qualifies(book[1], lastToday, 7)
    /\ outcome.msg = MsgDayOutOfRange

\* C17: after any command returns, the persisted book equals the in-memory
\* book.
C17_PersistedEqualsMemory ==
    lastCmd \in SevenCommands => load_address_book(disk) = book

\* C18: every record in the address book has a phone set, and Get Phone
\* and Show All never render the placeholder of an absent phone.
C18_EveryRecordHasPhone ==
    /\ \A i \in 1..Len(book) : book[i].phone.set
    /\ lastCmd \in {"phone", "all"}
          => \A k \in 1..Len(outcome.lines) :
                outcome.lines[k][2] # <<"N", "o", "n", "e">>

\* C19: Get Phone, Show All, Show Birthday and Show Birthdays leave the
\* in-memory book and the persisted book unchanged and perform no save,
\* whether they return a result or an error message.
C19_QueriesChangeNothing ==
    lastCmd \in {"phone", "all", "show-birthday", "birthdays"}
    => book = pre /\ disk = preDisk /\ ~saved

C19_Witness ==
    /\ lastCmd = "show-birthday"
    /\ outcome.msg = FmtPair
    /\ Len(book) = 2
    /\ book = pre
    /\ disk = preDisk
    /\ load_address_book(disk) # book

\* C16: the dispatch loop handles every input line without terminating
\* abnormally: an empty line and a line of whitespace only yield the
\* try-again message, a line whose first word is no known command yields
\* "Invalid command.", a known command yields its outcome, and in all these
\* cases the loop reads on; the loop ends only on close or exit, after
\* saving the book.
C16_LoopHandlesEveryLine ==
    probe.fn = "get_input"
    => /\ pc # "crashed"
       /\ (\A i \in 1..Len(probe.text) : probe.text[i] \in Whitespace)
             => outcome.msg = MsgNothing /\ pc = "loop"
       /\ lastCmd = "(invalid)" => outcome.msg = MsgInvalid /\ pc = "loop"
       /\ lastCmd \in SevenCommands => outcome.escaped = "none" /\ pc = "loop"
       /\ pc = "exited"
             => lastCmd = "exit" /\ saved /\ load_address_book(disk) = book

====
